---- MODULE Spec2Model ----
(***************************************************************************)
(* Verification model of the uniffi foreign-callback mechanism:            *)
(*   - ForeignCallbackInternals (uniffi/src/ffi/foreigncallbacks.rs): the   *)
(*     per-interface cell holding the foreign trampoline pointer;           *)
(*   - the record FfiConverter generated by RecordTemplate.rs;              *)
(*   - the foreign-side handle map and dispatcher reached through the       *)
(*     ForeignCallback pointer.                                             *)
(***************************************************************************)
EXTENDS Integers, Sequences, FiniteSets, TLC

(***************************************************************************)
(* Bounds of the model.                                                    *)
(***************************************************************************)
NumThreads == 3
NumCallbacks == 2
MaxCalls == 4
MaxFields == 3
NumCallers == 2
MaxHandles == 2
MaxDispatches == 3
NumInterfaces == 2
MaxRegistryCalls == 4
MaxLiteral == 16

Threads == 1..NumThreads

\* Addresses that include the null one.
CallbacksWithNull == 0..NumCallbacks

\* `callback as usize`: the addresses of the foreign functions that can be
\* passed to set_callback.  A function pointer is never null.
Callbacks == 1..NumCallbacks

(***************************************************************************)
(* ForeignCallbackInternals                                                *)
(***************************************************************************)
EMPTY_PTR == 0

\* Option<ForeignCallback>
None == [some |-> FALSE, ptr |-> EMPTY_PTR]
Some(p) == [some |-> TRUE, ptr |-> p]

\* ForeignCallbackInternals::new(): the value of callback_ptr after construction.
new == EMPTY_PTR

\* A compare_exchange that stores unconditionally (a swap).
compare_exchange_swap(cur, expected, desired) ==
    [ok |-> TRUE, val |-> cur, stored |-> desired]

\* A compare_exchange that reports a failed comparison but stores all the same.
compare_exchange_clobber(cur, expected, desired) ==
    [ok |-> cur = expected, val |-> cur, stored |-> desired]

\* A compare_exchange that compares but never stores.
compare_exchange_nostore(cur, expected, desired) ==
    IF cur = expected
    THEN [ok |-> TRUE, val |-> cur, stored |-> cur]
    ELSE [ok |-> FALSE, val |-> cur, stored |-> cur]

\* AtomicUsize::compare_exchange(expected, desired, SeqCst, SeqCst) on a cell
\* holding cur: Ok(previous) and the cell holds desired, or Err(actual) and
\* the cell is unchanged.  `stored` is the content of the cell afterwards.
compare_exchange(cur, expected, desired) ==
    IF cur = expected
    THEN [ok |-> TRUE, val |-> cur, stored |-> desired]
    ELSE [ok |-> FALSE, val |-> cur, stored |-> cur]

\* A match that accepts every result of the compare_exchange.
match_old_ptr_lenient(old) == "ok"

\* The match of set_callback: Ok(EMPTY_PTR) returns, anything else panics.
match_old_ptr(old) ==
    IF old.ok /\ old.val = EMPTY_PTR THEN "ok" ELSE "panic"

\* A transmute that wraps every value, the empty one included, in Some.
transmute_always_some(ptr_val) == Some(ptr_val)

\* transmute::<usize, Option<ForeignCallback>>: the null value is None, every
\* other value is Some(function pointer).
transmute(ptr_val) ==
    IF ptr_val = 0 THEN None ELSE Some(ptr_val)

(***************************************************************************)
(* Field converters.  A value crossing the FFI is a tagged value of one of *)
(* the primitive types; its bytes are those of the wire format: bool is    *)
(* one byte 0/1, intN/uintN are big-endian two's complement, a string is   *)
(* an i32 byte count followed by its UTF-8 bytes.                          *)
(***************************************************************************)
BoolV(b) == [kind |-> "bool", b |-> b, n |-> 0, s |-> <<>>]
U8V(n) == [kind |-> "u8", b |-> FALSE, n |-> n, s |-> <<>>]
I16V(n) == [kind |-> "i16", b |-> FALSE, n |-> n, s |-> <<>>]
StringV(s) == [kind |-> "string", b |-> FALSE, n |-> 0, s |-> s]
NoValue == [kind |-> "none", b |-> FALSE, n |-> 0, s |-> <<>>]

\* The field values the model draws records from.
FieldValues ==
    {BoolV(FALSE), BoolV(TRUE)}
    \cup {U8V(n) : n \in {0, 1, 255}}
    \cup {I16V(n) : n \in {-32768, -1, 0, 258}}
    \cup {StringV(s) : s \in {<<>>, <<97>>, <<0, 1>>}}

BE16(u) == <<u \div 256, u % 256>>
BE32(u) == <<u \div 16777216, (u \div 65536) % 256, (u \div 256) % 256, u % 256>>
FromBE16(b) == b[1] * 256 + b[2]
\* The big-endian i32 at the front of b, for a sign bit of 0.
FromBE32(b) == b[1] * 16777216 + b[2] * 65536 + b[3] * 256 + b[4]

Drop(buf, k) == SubSeq(buf, k + 1, Len(buf))
Take(buf, k) == SubSeq(buf, 1, k)

\* <field converter>::write(value, buf): appends the bytes of the value.
write_field(ty, v, buf) ==
    CASE ty = "bool" -> buf \o <<IF v.b THEN 1 ELSE 0>>
      [] ty = "u8" -> buf \o <<v.n>>
      [] ty = "i16" -> buf \o BE16(v.n % 65536)
      [] ty = "string" -> buf \o BE32(Len(v.s)) \o v.s

ReadError(msg, rest) == [ok |-> FALSE, value |-> NoValue, rest |-> rest, err |-> msg]
ReadOk(v, rest) == [ok |-> TRUE, value |-> v, rest |-> rest, err |-> ""]

\* <field converter>::try_read(buf): decodes one value from the front of the
\* slice and advances the slice past it, or fails.
try_read_field(ty, buf) ==
    CASE ty = "bool" ->
            IF Len(buf) < 1 THEN ReadError("not enough bytes", buf)
            ELSE IF buf[1] = 0 THEN ReadOk(BoolV(FALSE), Drop(buf, 1))
            ELSE IF buf[1] = 1 THEN ReadOk(BoolV(TRUE), Drop(buf, 1))
            ELSE ReadError("unexpected byte for Boolean", Drop(buf, 1))
      [] ty = "u8" ->
            IF Len(buf) < 1 THEN ReadError("not enough bytes", buf)
            ELSE ReadOk(U8V(buf[1]), Drop(buf, 1))
      [] ty = "i16" ->
            IF Len(buf) < 2 THEN ReadError("not enough bytes", buf)
            ELSE LET u == FromBE16(buf) IN
                 ReadOk(I16V(IF u >= 32768 THEN u - 65536 ELSE u), Drop(buf, 2))
      [] ty = "string" ->
            IF Len(buf) < 4 THEN ReadError("not enough bytes", buf)
            ELSE IF buf[1] >= 128 THEN ReadError("negative length", Drop(buf, 4))
            ELSE LET len == FromBE32(buf) IN
                 IF Len(buf) - 4 < len THEN ReadError("not enough bytes", Drop(buf, 4))
                 ELSE ReadOk(StringV(SubSeq(buf, 5, 4 + len)), Drop(buf, 4 + len))

(***************************************************************************)
(* The record converter generated by RecordTemplate.rs.  A record type is  *)
(* the sequence of its field types in declared order (rec.fields()); a     *)
(* record value is the sequence of its field values, in the same order.    *)
(***************************************************************************)
RECURSIVE write_fields(_, _, _, _)
\* `{%- for field in rec.fields() %} <converter>::write(obj.<field>, buf);`
write_fields(fields, obj, buf, i) ==
    IF i > Len(fields) THEN buf
    ELSE write_fields(fields, obj, write_field(fields[i], obj[i], buf), i + 1)

RECURSIVE write_fields_backwards(_, _, _, _)
write_fields_backwards(fields, obj, buf, i) ==
    IF i < 1 THEN buf
    ELSE write_fields_backwards(fields, obj, write_field(fields[i], obj[i], buf), i - 1)

\* A write that emits the fields last to first.
write_reversed(fields, obj, buf) == write_fields_backwards(fields, obj, buf, Len(fields))

\* fn write(obj, buf: &mut Vec<u8>): the content of buf afterwards.
write(fields, obj, buf) == write_fields(fields, obj, buf, 1)

RECURSIVE try_read_fields(_, _, _, _, _)
\* `<field>: <converter>::try_read(buf)?,` for each field in declared order:
\* the first failure returns its error.  `trace` lists, for every field read,
\* its position in the declaration and the bytes that were left when its
\* read began.
try_read_fields(fields, buf, i, acc, trace) ==
    IF i > Len(fields)
    THEN [ok |-> TRUE, value |-> acc, rest |-> buf, err |-> "", trace |-> trace]
    ELSE LET r == try_read_field(fields[i], buf)
             tr == Append(trace, [field |-> i, left |-> Len(buf)])
         IN IF ~r.ok
            THEN [ok |-> FALSE, value |-> <<>>, rest |-> r.rest, err |-> r.err, trace |-> tr]
            ELSE try_read_fields(fields, r.rest, i + 1, Append(acc, r.value), tr)

RECURSIVE try_read_fields_backwards(_, _, _, _, _)
try_read_fields_backwards(fields, buf, i, acc, trace) ==
    IF i < 1
    THEN [ok |-> TRUE, value |-> acc, rest |-> buf, err |-> "", trace |-> trace]
    ELSE LET r == try_read_field(fields[i], buf)
             tr == Append(trace, [field |-> i, left |-> Len(buf)])
         IN IF ~r.ok
            THEN [ok |-> FALSE, value |-> <<>>, rest |-> r.rest, err |-> r.err, trace |-> tr]
            ELSE try_read_fields_backwards(fields, r.rest, i - 1, <<r.value>> \o acc, tr)

RECURSIVE try_read_fields_lenient(_, _, _, _, _)
try_read_fields_lenient(fields, buf, i, acc, trace) ==
    IF i > Len(fields)
    THEN [ok |-> TRUE, value |-> acc, rest |-> buf, err |-> "", trace |-> trace]
    ELSE LET r == try_read_field(fields[i], buf)
             tr == Append(trace, [field |-> i, left |-> Len(buf)])
         IN try_read_fields_lenient(fields, r.rest, i + 1, Append(acc, r.value), tr)

\* A try_read without the `?`: a field that fails to decode is passed over
\* and the fields after it are read.
try_read_lenient(fields, buf) == try_read_fields_lenient(fields, buf, 1, <<>>, <<>>)

\* A try_read that reads the fields last to first.
try_read_reversed(fields, buf) ==
    try_read_fields_backwards(fields, buf, Len(fields), <<>>, <<>>)

\* fn try_read(buf: &mut &[u8]) -> Result<record>: the result, and the slice
\* as the call leaves it.
try_read(fields, buf) == try_read_fields(fields, buf, 1, <<>>, <<>>)

(***************************************************************************)
(* The handle map and the dispatcher of the foreign side, reached through  *)
(* the ForeignCallback pointer as (handle, method, args) -> result buffer. *)
(***************************************************************************)
IDX_CALLBACK_FREE == 0

\* The methods of the Keychain interface, numbered from 1 in declared order
\* (get, put), and a selector that names no method.
Methods == {1, 2}
Selectors == {IDX_CALLBACK_FREE} \cup Methods \cup {99}

\* The handles that the map can issue within the bound.
Handles == 1..MaxHandles

\* The threads that insert objects and invoke the trampoline.
Callers == 1..NumCallers

\* Result buffers: a status byte, 0 success, 1 user error, 2 protocol error,
\* followed by the payload.  The release of a handle answers with the empty
\* buffer.
EmptyBuffer == <<>>
StaleHandleMsg == <<115, 116>>
UnknownMethodMsg == <<117, 110>>
ProtocolMismatchMsg == <<112, 109>>
Success(payload) == <<0>> \o payload
UserError(payload) == <<1>> \o payload
ProtocolError(msg) == <<2>> \o msg

\* The encoded return value of a method: get answers an absent optional,
\* put answers nothing.
ReturnPayload(selector) == IF selector = 1 THEN <<0>> ELSE <<>>
\* The encoded error that a raising user method is translated into.
RaisedPayload == <<0, 0, 0, 1>>

\* A counter that hands out the next value without advancing.
fetch_add_lost(counter) == [handle |-> counter + 1, counter |-> counter]

\* The handle counter: one atomic step that advances the counter and hands
\* out the new value; the first handle is 1.
fetch_add(counter) == [handle |-> counter + 1, counter |-> counter + 1]

\* A dispatcher that gives up the handle when the user's method raises.
user_outcome_releasing(selector, raised) ==
    IF raised THEN [buf |-> UserError(RaisedPayload), release |-> TRUE]
    ELSE [buf |-> Success(ReturnPayload(selector)), release |-> FALSE]

\* Steps 4 and 5 of the dispatcher: the user's method has run; what it
\* raised is caught and encoded with status 1, what it returned is encoded
\* with status 0.  `release` says whether the handle is taken out of the map.
user_outcome(selector, raised) ==
    IF raised THEN [buf |-> UserError(RaisedPayload), release |-> FALSE]
    ELSE [buf |-> Success(ReturnPayload(selector)), release |-> FALSE]

\* A dispatcher that looks the handle up only for calls of the first method.
resolve_unchecked(live, handle, selector) ==
    IF selector = 1 /\ handle \notin live THEN "stale" ELSE "found"

\* Step 2 of the dispatcher: handle_map.get(handle) for a selector other
\* than 0.
resolve(live, handle, selector) ==
    IF handle \in live THEN "found" ELSE "stale"

(***************************************************************************)
(* render_literal of the Python bindings (gen_python/primitives.rs).  A    *)
(* text is a sequence of characters.  Int carries a signed and UInt an     *)
(* unsigned Rust integer, whose type is declared outside this file: the    *)
(* model lets it have any of Rust's widths.  Rust's {:o} and {:x} print    *)
(* the two's complement bits of a negative integer, {} prints its sign     *)
(* and magnitude.                                                          *)
(***************************************************************************)
IntWidths == {8, 16, 32, 64, 128}

DigitChars == <<"0", "1", "2", "3", "4", "5", "6", "7", "8", "9",
                "a", "b", "c", "d", "e", "f">>

RECURSIVE NatDigits(_, _)
\* The digits of n >= 0 in the base, most significant first, "0" for zero.
NatDigits(n, base) ==
    IF n < base THEN <<n>> ELSE NatDigits(n \div base, base) \o <<n % base>>

RECURSIVE FixedDigits(_, _, _)
\* The lowest `count` digits of n >= 0 in the base, most significant first.
FixedDigits(n, base, count) ==
    IF count = 0 THEN <<>> ELSE FixedDigits(n \div base, base, count - 1) \o <<n % base>>

\* The digits of the two's complement pattern of i < 0 in an integer of the
\* given width: the complement of the digits of -i-1; the leading digit holds
\* the bits that are left over when the width is no multiple of the digit's.
TwosComplementDigits(i, bits, base, bitsPerDigit) ==
    LET count == (bits + bitsPerDigit - 1) \div bitsPerDigit
        topBits == bits - (count - 1) * bitsPerDigit
        plain == FixedDigits(-(i + 1), base, count)
    IN [k \in 1..count |->
          IF k = 1 THEN (2 ^ topBits - 1) - (plain[1] % (2 ^ topBits))
          ELSE (base - 1) - plain[k]]

Chars(digits) == [k \in 1..Len(digits) |-> DigitChars[digits[k] + 1]]

\* format!("{:o}", i)
FormatOctal(i, bits) ==
    Chars(IF i < 0 THEN TwosComplementDigits(i, bits, 8, 3) ELSE NatDigits(i, 8))

\* format!("{:#x}", i)
FormatHexAlt(i, bits) ==
    <<"0", "x">> \o Chars(IF i < 0 THEN TwosComplementDigits(i, bits, 16, 4) ELSE NatDigits(i, 16))

\* format!("{}", i)
FormatDecimal(i) ==
    IF i < 0 THEN <<"-">> \o Chars(NatDigits(-i, 10)) ELSE Chars(NatDigits(i, 10))

IntLit(i, radix, bits) ==
    [kind |-> "Int", b |-> FALSE, i |-> i, bits |-> bits, radix |-> radix, s |-> <<>>]
UIntLit(i, radix, bits) ==
    [kind |-> "UInt", b |-> FALSE, i |-> i, bits |-> bits, radix |-> radix, s |-> <<>>]
BooleanLit(b) == [kind |-> "Boolean", b |-> b, i |-> 0, bits |-> 0, radix |-> "", s |-> <<>>]
StringLit(s) == [kind |-> "String", b |-> FALSE, i |-> 0, bits |-> 0, radix |-> "", s |-> s]
FloatLit(s) == [kind |-> "Float", b |-> FALSE, i |-> 0, bits |-> 0, radix |-> "", s |-> s]
NullLit == [kind |-> "Null", b |-> FALSE, i |-> 0, bits |-> 0, radix |-> "", s |-> <<>>]

Rendered(text) == [ok |-> TRUE, text |-> text]
Unreachable == [ok |-> FALSE, text |-> <<>>]

\* fn render_literal(_oracle, literal) -> String
render_literal(literal) ==
    CASE literal.kind = "Boolean" ->
            Rendered(IF literal.b THEN <<"T", "r", "u", "e">> ELSE <<"F", "a", "l", "s", "e">>)
      [] literal.kind = "String" -> Rendered(<<"\"">> \o literal.s \o <<"\"">>)
      [] literal.kind = "Int" ->
            (CASE literal.radix = "Octal" ->
                    Rendered(<<"i", "n", "t", "(", "0", "o">> \o FormatOctal(literal.i, literal.bits) \o <<")">>)
              [] literal.radix = "Decimal" -> Rendered(FormatDecimal(literal.i))
              [] literal.radix = "Hexadecimal" -> Rendered(FormatHexAlt(literal.i, literal.bits)))
      [] literal.kind = "UInt" ->
            (CASE literal.radix = "Octal" -> Rendered(<<"0", "o">> \o FormatOctal(literal.i, literal.bits))
              [] literal.radix = "Decimal" -> Rendered(FormatDecimal(literal.i))
              [] literal.radix = "Hexadecimal" -> Rendered(FormatHexAlt(literal.i, literal.bits)))
      [] literal.kind = "Float" -> Rendered(literal.s)
      [] OTHER -> Unreachable

(***************************************************************************)
(* The integer that Python reads in a text: an optional int( ) around an    *)
(* optional sign and an integer literal, 0o and 0x announcing the base.     *)
(* An integer is kept as its sign, the base it was written in and its      *)
(* digits in that base without leading zeros (none for zero), so that no   *)
(* magnitude has to fit a machine word.                                    *)
(***************************************************************************)
RECURSIVE StripZeros(_)
StripZeros(digits) ==
    IF digits # <<>> /\ digits[1] = 0 THEN StripZeros(Tail(digits)) ELSE digits

Integer(neg, base, digits) ==
    LET d == StripZeros(digits) IN [neg |-> neg /\ d # <<>>, base |-> base, digits |-> d]

DigitOf(c) == CHOOSE d \in 0..15 : DigitChars[d + 1] = c

StartsWith(text, prefix) ==
    Len(text) >= Len(prefix) /\ SubSeq(text, 1, Len(prefix)) = prefix

PythonLiteral(text, neg) ==
    IF StartsWith(text, <<"0", "o">>)
    THEN Integer(neg, 8, [k \in 1..(Len(text) - 2) |-> DigitOf(text[k + 2])])
    ELSE IF StartsWith(text, <<"0", "x">>)
    THEN Integer(neg, 16, [k \in 1..(Len(text) - 2) |-> DigitOf(text[k + 2])])
    ELSE Integer(neg, 10, [k \in 1..Len(text) |-> DigitOf(text[k])])

PythonSigned(text) ==
    IF StartsWith(text, <<"-">>) THEN PythonLiteral(Tail(text), TRUE)
    ELSE PythonLiteral(text, FALSE)

PythonInt(text) ==
    IF StartsWith(text, <<"i", "n", "t", "(">>) /\ text[Len(text)] = ")"
    THEN PythonSigned(SubSeq(text, 5, Len(text) - 1))
    ELSE PythonSigned(text)

RadixBase(radix) ==
    CASE radix = "Octal" -> 8 [] radix = "Decimal" -> 10 [] radix = "Hexadecimal" -> 16

\* The integer i, in the base of the radix.
IntegerOf(i, radix) ==
    Integer(i < 0, RadixBase(radix), NatDigits(IF i < 0 THEN -i ELSE i, RadixBase(radix)))

VARIABLES
    callback_ptr,   \* ForeignCallbackInternals.callback_ptr
    pc,             \* per thread: position in set_callback / get_callback
    as_usize,       \* per thread: local of set_callback
    old_ptr,        \* per thread: local of set_callback (result of the CAS)
    ptr_value,      \* per thread: local of get_callback
    atCall,         \* per thread: what was observable when the call began
    atOp,           \* per thread: what was true at the call's atomic operation
    casCount,       \* number of compare_exchange operations executed
    effective,      \* number of compare_exchange operations that succeeded
    calls,          \* number of calls begun
    setLog,         \* completed set_callback calls, in order of completion
    getLog,         \* completed get_callback calls, in order of completion
    rec_fields,     \* the record type: its field types in declared order
    rec_obj,        \* the record value handed to write
    rec_prefix,     \* what the Vec<u8> held before write was called
    rec_buf,        \* the Vec<u8> that write appends to
    rec_wire,       \* the slice handed to try_read, as it was before the call
    rec_result,     \* what try_read returned, and the slice as it left it
    rec_pc,         \* "start", "written", "read", or "misread" after a read of damaged bytes
    hm_counter,     \* the handle map's counter: the last handle handed out
    hm_live,        \* the handles that the map holds an object for
    hm_drops,       \* per handle: how many times its object was dropped
    hm_released,    \* the handles on which a release (selector 0) has unlinked the object
    hm_raised,      \* the handles on which a user method has raised
    hpc,            \* per thread: position in insert / in the dispatcher
    hloc,           \* per thread: the call's arguments and what held when it began
    hcalls,         \* number of trampoline invocations begun
    insLog,         \* completed inserts, in order of completion
    last,           \* the trampoline invocation that completed last
    reg_ptr,        \* per callback interface: callback_ptr of its ForeignCallbackInternals
    reg_first,      \* per callback interface: the pointer of the first set_callback that took effect
    rpc,            \* per thread: position in set_callback / get_callback on one of the registries
    rloc,           \* per thread: the registry addressed, the locals, what held at the atomic operation
    rcalls,         \* number of calls begun on the registries
    rlast,          \* the call on a registry that completed last
    lit,            \* the Literal handed to render_literal
    lit_text,       \* the String that render_literal returned
    lit_py,         \* the integer that Python reads in lit_text
    lit_pc          \* "start", "rendered", "panicked" or "evaluated"

registryVars == <<callback_ptr, pc, as_usize, old_ptr, ptr_value, atCall, atOp,
                  casCount, effective, calls, setLog, getLog>>

recordVars == <<rec_fields, rec_obj, rec_prefix, rec_buf, rec_wire, rec_result, rec_pc>>

handleVars == <<hm_counter, hm_live, hm_drops, hm_released, hm_raised, hpc, hloc,
                hcalls, insLog, last>>

registriesVars == <<reg_ptr, reg_first, rpc, rloc, rcalls, rlast>>

literalVars == <<lit, lit_text, lit_py, lit_pc>>

vars == <<registryVars, recordVars, handleVars, registriesVars, literalVars>>

\* What the operations of one component leave alone.
exceptRegistry == <<recordVars, handleVars, registriesVars, literalVars>>
exceptRecord == <<registryVars, handleVars, registriesVars, literalVars>>
exceptHandles == <<registryVars, recordVars, registriesVars, literalVars>>
exceptRegistries == <<registryVars, recordVars, handleVars, literalVars>>
exceptLiteral == <<registryVars, recordVars, handleVars, registriesVars>>

\* The pointers of the set_callback calls that have returned normally.
ReturnedOk == {setLog[i].callback : i \in {j \in 1..Len(setLog) : setLog[j].outcome = "ok"}}

\* The pointers of the set_callback calls that have panicked.
Rejected == {setLog[i].callback : i \in {j \in 1..Len(setLog) : setLog[j].outcome = "panic"}}

NoAtCall == [empty |-> FALSE, returned |-> {}, rejected |-> {}]

InitRegistry ==
    /\ callback_ptr = new
    /\ pc = [t \in Threads |-> "idle"]
    /\ as_usize = [t \in Threads |-> 0]
    /\ old_ptr = [t \in Threads |-> [ok |-> FALSE, val |-> 0]]
    /\ ptr_value = [t \in Threads |-> 0]
    /\ atCall = [t \in Threads |-> NoAtCall]
    /\ atOp = [t \in Threads |-> 0]
    /\ casCount = 0
    /\ effective = 0
    /\ calls = 0
    /\ setLog = <<>>
    /\ getLog = <<>>

\* set_callback(&self, callback): entry, `let as_usize = callback as usize`.
set_callback_enter(t, callback) ==
    /\ pc[t] = "idle"
    /\ calls < MaxCalls
    /\ calls' = calls + 1
    /\ pc' = [pc EXCEPT ![t] = "set_cas"]
    /\ as_usize' = [as_usize EXCEPT ![t] = callback]
    /\ atCall' = [atCall EXCEPT ![t] =
                    [empty |-> callback_ptr = EMPTY_PTR, returned |-> ReturnedOk,
                     rejected |-> Rejected]]
    /\ UNCHANGED <<callback_ptr, old_ptr, ptr_value, atOp, casCount, effective,
                   setLog, getLog>>
    /\ UNCHANGED exceptRegistry

\* `let old_ptr = self.callback_ptr.compare_exchange(EMPTY_PTR, as_usize, ..)`:
\* one atomic step.
set_callback_cas(t) ==
    /\ pc[t] = "set_cas"
    /\ LET r == compare_exchange(callback_ptr, EMPTY_PTR, as_usize[t]) IN
        /\ callback_ptr' = r.stored
        /\ old_ptr' = [old_ptr EXCEPT ![t] = [ok |-> r.ok, val |-> r.val]]
        /\ effective' = IF r.ok THEN effective + 1 ELSE effective
    /\ casCount' = casCount + 1
    /\ atOp' = [atOp EXCEPT ![t] = casCount + 1]
    /\ pc' = [pc EXCEPT ![t] = "set_match"]
    /\ UNCHANGED <<as_usize, ptr_value, atCall, calls, setLog, getLog>>
    /\ UNCHANGED exceptRegistry

\* `match old_ptr { Ok(EMPTY_PTR) => (), _ => panic!(..) }`: the call ends,
\* by returning or by panicking.
set_callback_match(t) ==
    /\ pc[t] = "set_match"
    /\ setLog' = Append(setLog,
                    [thread |-> t, callback |-> as_usize[t], order |-> atOp[t],
                     onEmpty |-> atCall[t].empty,
                     outcome |-> match_old_ptr(old_ptr[t])])
    /\ pc' = [pc EXCEPT ![t] = "idle"]
    /\ as_usize' = [as_usize EXCEPT ![t] = 0]
    /\ old_ptr' = [old_ptr EXCEPT ![t] = [ok |-> FALSE, val |-> 0]]
    /\ atCall' = [atCall EXCEPT ![t] = NoAtCall]
    /\ atOp' = [atOp EXCEPT ![t] = 0]
    /\ UNCHANGED <<callback_ptr, ptr_value, casCount, effective, calls, getLog>>
    /\ UNCHANGED exceptRegistry

\* get_callback(&self): entry.
get_callback_enter(t) ==
    /\ pc[t] = "idle"
    /\ calls < MaxCalls
    /\ calls' = calls + 1
    /\ pc' = [pc EXCEPT ![t] = "get_load"]
    /\ atCall' = [atCall EXCEPT ![t] =
                    [empty |-> callback_ptr = EMPTY_PTR, returned |-> ReturnedOk,
                     rejected |-> Rejected]]
    /\ UNCHANGED <<callback_ptr, as_usize, old_ptr, ptr_value, atOp, casCount,
                   effective, setLog, getLog>>
    /\ UNCHANGED exceptRegistry

\* `let ptr_value = self.callback_ptr.load(Ordering::SeqCst)`: one atomic step.
get_callback_load(t) ==
    /\ pc[t] = "get_load"
    /\ ptr_value' = [ptr_value EXCEPT ![t] = callback_ptr]
    /\ atOp' = [atOp EXCEPT ![t] = effective]
    /\ pc' = [pc EXCEPT ![t] = "get_ret"]
    /\ UNCHANGED <<callback_ptr, as_usize, old_ptr, atCall, casCount, effective,
                   calls, setLog, getLog>>
    /\ UNCHANGED exceptRegistry

\* `unsafe { transmute::<usize, Option<ForeignCallback>>(ptr_value) }`: the
\* call returns.
get_callback_return(t) ==
    /\ pc[t] = "get_ret"
    /\ getLog' = Append(getLog,
                    [thread |-> t, result |-> transmute(ptr_value[t]),
                     effectiveAtLoad |-> atOp[t],
                     returnedAtCall |-> atCall[t].returned,
                     rejectedAtCall |-> atCall[t].rejected])
    /\ pc' = [pc EXCEPT ![t] = "idle"]
    /\ ptr_value' = [ptr_value EXCEPT ![t] = 0]
    /\ atCall' = [atCall EXCEPT ![t] = NoAtCall]
    /\ atOp' = [atOp EXCEPT ![t] = 0]
    /\ UNCHANGED <<callback_ptr, as_usize, old_ptr, casCount, effective, calls,
                   setLog>>
    /\ UNCHANGED exceptRegistry

(***************************************************************************)
(* Records: a value is written into a buffer, the bytes written are read   *)
(* back, possibly followed by the bytes of whatever comes next.            *)
(***************************************************************************)
NoResult == [ok |-> FALSE, value |-> <<>>, rest |-> <<>>, err |-> "", trace |-> <<>>]

Prefixes == {<<>>, <<7>>}
Trailers == {<<>>, <<1, 0>>}

RecordIdle ==
    /\ rec_fields = <<>>
    /\ rec_obj = <<>>
    /\ rec_prefix = <<>>
    /\ rec_buf = <<>>
    /\ rec_wire = <<>>
    /\ rec_result = NoResult
    /\ rec_pc = "idle"

InitRecord ==
    /\ \E n \in 0..MaxFields : \E obj \in [1..n -> FieldValues] :
          /\ rec_obj = obj
          /\ rec_fields = [i \in 1..n |-> obj[i].kind]
    /\ rec_prefix \in Prefixes
    /\ rec_buf = rec_prefix
    /\ rec_wire = <<>>
    /\ rec_result = NoResult
    /\ rec_pc = "start"

\* <Converter>::write(obj, &mut buf)
RecordWrite ==
    /\ rec_pc = "start"
    /\ rec_buf' = write(rec_fields, rec_obj, rec_buf)
    /\ rec_pc' = "written"
    /\ UNCHANGED <<rec_fields, rec_obj, rec_prefix, rec_wire, rec_result>>
    /\ UNCHANGED exceptRecord

\* <Converter>::try_read(&mut slice) on the bytes that write produced,
\* followed by trailer.
RecordRead(trailer) ==
    /\ rec_pc = "written"
    /\ rec_wire' = Drop(rec_buf, Len(rec_prefix)) \o trailer
    /\ rec_result' = try_read(rec_fields, rec_wire')
    /\ rec_pc' = "read"
    /\ UNCHANGED <<rec_fields, rec_obj, rec_prefix, rec_buf>>
    /\ UNCHANGED exceptRecord

(***************************************************************************)
(* Handle map and dispatcher                                               *)
(***************************************************************************)
NoLocals == [handle |-> 0, selector |-> 0, argsOk |-> FALSE, afterRelease |-> FALSE,
             afterRaise |-> FALSE, overlap |-> {}]
NoResponse == [handle |-> 0, selector |-> 0, kind |-> "none", buf |-> <<>>,
               afterRelease |-> FALSE, afterRaise |-> FALSE]

InitHandles ==
    /\ hm_counter = 0
    /\ hm_live = {}
    /\ hm_drops = [h \in Handles |-> 0]
    /\ hm_released = {}
    /\ hm_raised = {}
    /\ hpc = [t \in Callers |-> "idle"]
    /\ hloc = [t \in Callers |-> NoLocals]
    /\ hcalls = 0
    /\ insLog = <<>>
    /\ last = NoResponse

\* The handles that insert has returned to its caller.
Issued == {insLog[i].handle : i \in 1..Len(insLog)}
Inserting == {t \in Callers : hpc[t] \in {"ins_alloc", "ins_publish"}}

\* insert(object): entry.
insert_enter(t) ==
    /\ hpc[t] = "idle"
    /\ hm_counter + Cardinality(Inserting) < MaxHandles
    /\ hpc' = [hpc EXCEPT ![t] = "ins_alloc"]
    /\ hloc' = [hloc EXCEPT ![t] = [NoLocals EXCEPT !.overlap = Inserting]]
    /\ UNCHANGED <<hm_counter, hm_live, hm_drops, hm_released, hm_raised, hcalls,
                   insLog, last>>
    /\ UNCHANGED exceptHandles

\* insert: the counter hands out a fresh handle.
insert_alloc(t) ==
    /\ hpc[t] = "ins_alloc"
    /\ LET r == fetch_add(hm_counter) IN
        /\ hm_counter' = r.counter
        /\ hloc' = [hloc EXCEPT ![t].handle = r.handle,
                                ![t].overlap = @ \cup (Inserting \ {t})]
    /\ hpc' = [hpc EXCEPT ![t] = "ins_publish"]
    /\ UNCHANGED <<hm_live, hm_drops, hm_released, hm_raised, hcalls, insLog, last>>
    /\ UNCHANGED exceptHandles

\* insert: the entry is published in the map and the handle is returned.
insert_publish(t) ==
    /\ hpc[t] = "ins_publish"
    /\ hm_live' = hm_live \cup {hloc[t].handle}
    /\ insLog' = Append(insLog, [handle |-> hloc[t].handle,
                                 overlapped |-> hloc[t].overlap # {}])
    /\ hpc' = [hpc EXCEPT ![t] = "idle"]
    /\ hloc' = [hloc EXCEPT ![t] = NoLocals]
    /\ UNCHANGED <<hm_counter, hm_drops, hm_released, hm_raised, hcalls, last>>
    /\ UNCHANGED exceptHandles

Respond(t, kind, buf) ==
    /\ last' = [handle |-> hloc[t].handle, selector |-> hloc[t].selector,
                kind |-> kind, buf |-> buf,
                afterRelease |-> hloc[t].afterRelease,
                afterRaise |-> hloc[t].afterRaise]
    /\ hpc' = [hpc EXCEPT ![t] = "idle"]
    /\ hloc' = [hloc EXCEPT ![t] = NoLocals]

\* The trampoline is invoked with (handle, selector, args) for a handle that
\* the host holds; argsOk says whether args decodes as the parameters of the
\* method (it matters for the selectors that name a method only).
dispatch_enter(t, handle, selector, argsOk) ==
    /\ hpc[t] = "idle"
    /\ hcalls < MaxDispatches
    /\ handle \in Issued
    /\ selector \notin Methods => argsOk
    /\ hcalls' = hcalls + 1
    /\ hpc' = [hpc EXCEPT ![t] = "resolve"]
    /\ hloc' = [hloc EXCEPT ![t] =
                  [handle |-> handle, selector |-> selector, argsOk |-> argsOk,
                   afterRelease |-> handle \in hm_released,
                   afterRaise |-> handle \in hm_raised, overlap |-> {}]]
    /\ UNCHANGED <<hm_counter, hm_live, hm_drops, hm_released, hm_raised, insLog, last>>
    /\ UNCHANGED exceptHandles

\* Step 1, selector 0 on a handle of the map: handle_map.remove(handle)
\* unlinks the object, its destructor runs, the empty buffer is returned.
dispatch_free(t) ==
    /\ hpc[t] = "resolve"
    /\ hloc[t].selector = IDX_CALLBACK_FREE
    /\ hloc[t].handle \in hm_live
    /\ hm_live' = hm_live \ {hloc[t].handle}
    /\ hm_drops' = [hm_drops EXCEPT ![hloc[t].handle] = @ + 1]
    /\ hm_released' = hm_released \cup {hloc[t].handle}
    /\ Respond(t, "freed", EmptyBuffer)
    /\ UNCHANGED <<hm_counter, hm_raised, hcalls, insLog>>
    /\ UNCHANGED exceptHandles

\* Step 1, selector 0 on a handle that is no longer in the map: there is
\* nothing to drop; the answer is either the empty buffer or a stale-handle
\* error, as the dispatcher chooses.
dispatch_free_again(t, idempotent) ==
    /\ hpc[t] = "resolve"
    /\ hloc[t].selector = IDX_CALLBACK_FREE
    /\ hloc[t].handle \notin hm_live
    /\ IF idempotent
       THEN Respond(t, "freed", EmptyBuffer)
       ELSE Respond(t, "stale", ProtocolError(StaleHandleMsg))
    /\ UNCHANGED <<hm_counter, hm_live, hm_drops, hm_released, hm_raised, hcalls, insLog>>
    /\ UNCHANGED exceptHandles

\* Step 2: handle_map.get(handle); a missing handle is answered with the
\* stale-handle error, a present one is pinned for the invocation.
dispatch_get(t) ==
    /\ hpc[t] = "resolve"
    /\ hloc[t].selector # IDX_CALLBACK_FREE
    /\ IF resolve(hm_live, hloc[t].handle, hloc[t].selector) = "stale"
       THEN Respond(t, "stale", ProtocolError(StaleHandleMsg))
       ELSE /\ hpc' = [hpc EXCEPT ![t] = "decode"]
            /\ UNCHANGED <<hloc, last>>
    /\ UNCHANGED <<hm_counter, hm_live, hm_drops, hm_released, hm_raised, hcalls, insLog>>
    /\ UNCHANGED exceptHandles

\* Step 3: an unknown selector and an argument buffer that does not decode
\* are answered with protocol errors.
dispatch_decode(t) ==
    /\ hpc[t] = "decode"
    /\ IF hloc[t].selector \notin Methods
       THEN Respond(t, "unknown", ProtocolError(UnknownMethodMsg))
       ELSE IF ~hloc[t].argsOk
       THEN Respond(t, "mismatch", ProtocolError(ProtocolMismatchMsg))
       ELSE /\ hpc' = [hpc EXCEPT ![t] = "user"]
            /\ UNCHANGED <<hloc, last>>
    /\ UNCHANGED <<hm_counter, hm_live, hm_drops, hm_released, hm_raised, hcalls, insLog>>
    /\ UNCHANGED exceptHandles

\* Steps 4 and 5: the user's method runs, and returns or raises.
dispatch_user(t, raised) ==
    /\ hpc[t] = "user"
    /\ LET out == user_outcome(hloc[t].selector, raised) IN
        /\ hm_live' = IF out.release THEN hm_live \ {hloc[t].handle} ELSE hm_live
        /\ Respond(t, IF raised THEN "raised" ELSE "returned", out.buf)
    /\ hm_raised' = IF raised THEN hm_raised \cup {hloc[t].handle} ELSE hm_raised
    /\ UNCHANGED <<hm_counter, hm_drops, hm_released, hcalls, insLog>>
    /\ UNCHANGED exceptHandles

NextHandles ==
    \/ \E t \in Callers : insert_enter(t)
    \/ \E t \in Callers : insert_alloc(t)
    \/ \E t \in Callers : insert_publish(t)
    \/ \E t \in Callers, h \in Handles, sel \in Selectors, argsOk \in BOOLEAN :
          dispatch_enter(t, h, sel, argsOk)
    \/ \E t \in Callers : dispatch_free(t)
    \/ \E t \in Callers, idempotent \in BOOLEAN : dispatch_free_again(t, idempotent)
    \/ \E t \in Callers : dispatch_get(t)
    \/ \E t \in Callers : dispatch_decode(t)
    \/ \E t \in Callers, raised \in BOOLEAN : dispatch_user(t, raised)

(***************************************************************************)
(* One ForeignCallbackInternals per callback interface: every interface    *)
(* has its own instance, made by new(), and set_callback / get_callback    *)
(* work on the callback_ptr of the instance they are called on (&self).    *)
(***************************************************************************)
Interfaces == 1..NumInterfaces

\* A store that lands in the callback_ptr of every instance, as if the
\* instances shared one cell.
self_store_shared(regs, iface, value) == [a \in Interfaces |-> value]

\* `self.callback_ptr` written through &self: the cell of that instance.
self_store(regs, iface, value) == [regs EXCEPT ![iface] = value]

\* `self.callback_ptr` read through &self.
self_load(regs, iface) == regs[iface]

NoRegistryLocals == [iface |-> 0, as_usize |-> 0, old_ptr |-> [ok |-> FALSE, val |-> 0],
                     ptr_value |-> 0, firstAtOp |-> 0, othersSet |-> FALSE]
NoRegistryCall == [op |-> "none", iface |-> 0, callback |-> 0, outcome |-> "",
                   result |-> None, firstAtOp |-> 0, othersSet |-> FALSE]

InitRegistries ==
    /\ reg_ptr = [a \in Interfaces |-> new]
    /\ reg_first = [a \in Interfaces |-> 0]
    /\ rpc = [t \in Threads |-> "idle"]
    /\ rloc = [t \in Threads |-> NoRegistryLocals]
    /\ rcalls = 0
    /\ rlast = NoRegistryCall

\* Whether the registry of some interface other than iface holds a pointer.
OthersSet(iface) == \E a \in Interfaces : a # iface /\ reg_first[a] # 0

\* set_callback on the registry of iface: entry.
registry_set_enter(t, iface, callback) ==
    /\ rpc[t] = "idle"
    /\ rcalls < MaxRegistryCalls
    /\ rcalls' = rcalls + 1
    /\ rpc' = [rpc EXCEPT ![t] = "set_cas"]
    /\ rloc' = [rloc EXCEPT ![t] = [NoRegistryLocals EXCEPT !.iface = iface,
                                                           !.as_usize = callback]]
    /\ UNCHANGED <<reg_ptr, reg_first, rlast>>
    /\ UNCHANGED exceptRegistries

\* set_callback: the compare_exchange on the instance's callback_ptr.
registry_set_cas(t) ==
    /\ rpc[t] = "set_cas"
    /\ LET a == rloc[t].iface
           r == compare_exchange(self_load(reg_ptr, a), EMPTY_PTR, rloc[t].as_usize)
       IN /\ reg_ptr' = self_store(reg_ptr, a, r.stored)
          /\ reg_first' = IF r.ok /\ reg_first[a] = 0
                          THEN [reg_first EXCEPT ![a] = rloc[t].as_usize]
                          ELSE reg_first
          /\ rloc' = [rloc EXCEPT ![t].old_ptr = [ok |-> r.ok, val |-> r.val],
                                  ![t].firstAtOp = reg_first[a],
                                  ![t].othersSet = OthersSet(a)]
    /\ rpc' = [rpc EXCEPT ![t] = "set_match"]
    /\ UNCHANGED <<rcalls, rlast>>
    /\ UNCHANGED exceptRegistries

\* set_callback: the match; the call returns or panics.
registry_set_match(t) ==
    /\ rpc[t] = "set_match"
    /\ rlast' = [op |-> "set", iface |-> rloc[t].iface, callback |-> rloc[t].as_usize,
                 outcome |-> match_old_ptr(rloc[t].old_ptr), result |-> None,
                 firstAtOp |-> rloc[t].firstAtOp, othersSet |-> rloc[t].othersSet]
    /\ rpc' = [rpc EXCEPT ![t] = "idle"]
    /\ rloc' = [rloc EXCEPT ![t] = NoRegistryLocals]
    /\ UNCHANGED <<reg_ptr, reg_first, rcalls>>
    /\ UNCHANGED exceptRegistries

\* get_callback on the registry of iface: entry.
registry_get_enter(t, iface) ==
    /\ rpc[t] = "idle"
    /\ rcalls < MaxRegistryCalls
    /\ rcalls' = rcalls + 1
    /\ rpc' = [rpc EXCEPT ![t] = "get_load"]
    /\ rloc' = [rloc EXCEPT ![t] = [NoRegistryLocals EXCEPT !.iface = iface]]
    /\ UNCHANGED <<reg_ptr, reg_first, rlast>>
    /\ UNCHANGED exceptRegistries

\* get_callback: the load of the instance's callback_ptr.
registry_get_load(t) ==
    /\ rpc[t] = "get_load"
    /\ rloc' = [rloc EXCEPT ![t].ptr_value = self_load(reg_ptr, rloc[t].iface),
                            ![t].firstAtOp = reg_first[rloc[t].iface],
                            ![t].othersSet = OthersSet(rloc[t].iface)]
    /\ rpc' = [rpc EXCEPT ![t] = "get_ret"]
    /\ UNCHANGED <<reg_ptr, reg_first, rcalls, rlast>>
    /\ UNCHANGED exceptRegistries

\* get_callback: the transmute; the call returns.
registry_get_return(t) ==
    /\ rpc[t] = "get_ret"
    /\ rlast' = [op |-> "get", iface |-> rloc[t].iface, callback |-> 0, outcome |-> "ok",
                 result |-> transmute(rloc[t].ptr_value),
                 firstAtOp |-> rloc[t].firstAtOp, othersSet |-> rloc[t].othersSet]
    /\ rpc' = [rpc EXCEPT ![t] = "idle"]
    /\ rloc' = [rloc EXCEPT ![t] = NoRegistryLocals]
    /\ UNCHANGED <<reg_ptr, reg_first, rcalls>>
    /\ UNCHANGED exceptRegistries

NextRegistries ==
    \/ \E t \in Threads, a \in Interfaces, callback \in Callbacks :
          registry_set_enter(t, a, callback)
    \/ \E t \in Threads : registry_set_cas(t)
    \/ \E t \in Threads : registry_set_match(t)
    \/ \E t \in Threads, a \in Interfaces : registry_get_enter(t, a)
    \/ \E t \in Threads : registry_get_load(t)
    \/ \E t \in Threads : registry_get_return(t)

(***************************************************************************)
(* Literals: a literal is rendered, and Python reads the text.             *)
(***************************************************************************)
Radixes == {"Octal", "Decimal", "Hexadecimal"}
IntValues == (-MaxLiteral..MaxLiteral) \cup {-2147483647, -65536, 65535, 2147483647}
UIntValues == (0..MaxLiteral) \cup {65535, 2147483647}
\* The integers that a signed, respectively unsigned, integer of the width holds.
FitsSigned(i, bits) ==
    IF bits >= 32 THEN TRUE ELSE i >= -(2 ^ (bits - 1)) /\ i < 2 ^ (bits - 1)
FitsUnsigned(i, bits) ==
    IF bits >= 32 THEN TRUE ELSE i < 2 ^ bits

Literals ==
    {IntLit(i, r, w) : i \in IntValues, r \in Radixes, w \in IntWidths}
    \cup {UIntLit(i, r, w) : i \in UIntValues, r \in Radixes, w \in IntWidths}
    \cup {BooleanLit(b) : b \in BOOLEAN}
    \cup {StringLit(s) : s \in {<<>>, <<"h", "i">>}}
    \cup {FloatLit(s) : s \in {<<"1", ".", "5">>}}
    \cup {NullLit}

NoInteger == [neg |-> FALSE, base |-> 0, digits |-> <<>>]

LiteralIdle ==
    /\ lit = NullLit
    /\ lit_text = <<>>
    /\ lit_py = NoInteger
    /\ lit_pc = "idle"

InitLiteral ==
    /\ lit \in Literals
    /\ lit.kind = "Int" => FitsSigned(lit.i, lit.bits)
    /\ lit.kind = "UInt" => FitsUnsigned(lit.i, lit.bits)
    /\ lit_text = <<>>
    /\ lit_py = NoInteger
    /\ lit_pc = "start"

\* render_literal(oracle, &literal)
RenderLiteral ==
    /\ lit_pc = "start"
    /\ LET r == render_literal(lit) IN
        /\ lit_text' = r.text
        /\ lit_pc' = IF r.ok THEN "rendered" ELSE "panicked"
    /\ UNCHANGED <<lit, lit_py>>
    /\ UNCHANGED exceptLiteral

\* The generated Python evaluates the text of an integer literal.
PythonEvaluate ==
    /\ lit_pc = "rendered"
    /\ lit.kind \in {"Int", "UInt"}
    /\ lit_py' = PythonInt(lit_text)
    /\ lit_pc' = "evaluated"
    /\ UNCHANGED <<lit, lit_text>>
    /\ UNCHANGED exceptLiteral

NextLiteral ==
    \/ RenderLiteral
    \/ PythonEvaluate

\* Every interface's registry after construction; nothing else is used.
InitAllRegistries == InitRegistry /\ RecordIdle /\ InitHandles /\ InitRegistries /\ LiteralIdle

SpecRegistries == InitAllRegistries /\ [][NextRegistries]_vars

\* A literal about to be rendered; nothing else is used.
InitRenderLiteral == InitRegistry /\ RecordIdle /\ InitHandles /\ InitRegistries /\ InitLiteral

SpecLiteral == InitRenderLiteral /\ [][NextLiteral]_vars

\* The handle map after construction; the registry and the record converter
\* are not used.
InitHandleMap == InitRegistry /\ RecordIdle /\ InitHandles /\ InitRegistries /\ LiteralIdle

SpecHandles == InitHandleMap /\ [][NextHandles]_vars

\* A byte that is no encoding of a bool and, in front of a length, makes it negative.
BadByte == <<200>>

\* What a damaged transmission can make of bytes: they are cut short, or one
\* of them is replaced.
Damaged(bytes) ==
    {Take(bytes, k) : k \in 0..(Len(bytes) - 1)}
    \cup {Take(bytes, j - 1) \o BadByte \o Drop(bytes, j) : j \in 1..Len(bytes)}

\* <Converter>::try_read(&mut slice) on bytes that are not what write produced.
RecordReadDamaged(wire) ==
    /\ rec_pc = "written"
    /\ rec_wire' = wire
    /\ rec_result' = try_read(rec_fields, wire)
    /\ rec_pc' = "misread"
    /\ UNCHANGED <<rec_fields, rec_obj, rec_prefix, rec_buf>>
    /\ UNCHANGED exceptRecord

Init == InitRegistry /\ RecordIdle /\ InitHandles /\ InitRegistries /\ LiteralIdle

Next ==
    \/ \E t \in Threads, callback \in Callbacks : set_callback_enter(t, callback)
    \/ \E t \in Threads : set_callback_cas(t)
    \/ \E t \in Threads : set_callback_match(t)
    \/ \E t \in Threads : get_callback_enter(t)
    \/ \E t \in Threads : get_callback_load(t)
    \/ \E t \in Threads : get_callback_return(t)

Spec == Init /\ [][Next]_vars

NextRecord ==
    \/ RecordWrite
    \/ \E trailer \in Trailers : RecordRead(trailer)
    \/ \E wire \in Damaged(Drop(rec_buf, Len(rec_prefix))) : RecordReadDamaged(wire)

\* A record about to be written; the registry and the handle map are not used.
InitRecordConverter == InitRegistry /\ InitRecord /\ InitHandles /\ InitRegistries /\ LiteralIdle

SpecRecord == InitRecordConverter /\ [][NextRecord]_vars

(***************************************************************************)
(* Properties of ForeignCallbackInternals                                  *)
(***************************************************************************)
SetCalls == 1..Len(setLog)
GetCalls == 1..Len(getLog)

\* C1 (single registration): among the set_callback calls on one registry,
\* taken in the order of their compare_exchange, exactly the first returns
\* normally and every later one panics; no second call ever succeeds.
SingleRegistration ==
    /\ \A i \in SetCalls : (setLog[i].outcome = "ok") <=> (setLog[i].order = 1)
    /\ \A i \in SetCalls : setLog[i].order > 1 => setLog[i].outcome = "panic"
    /\ Cardinality({i \in SetCalls : setLog[i].outcome = "ok"}) <= 1

\* A first call has returned normally and a later call has panicked.
SingleRegistrationWitness ==
    \E i, j \in SetCalls :
        /\ setLog[i].order = 1 /\ setLog[i].outcome = "ok"
        /\ setLog[j].order = 2 /\ setLog[j].outcome = "panic"

\* The set_callback calls that began while the registry was still empty.
OnEmpty == {i \in SetCalls : setLog[i].onEmpty}
OnEmptyInFlight == {t \in Threads : pc[t] \in {"set_cas", "set_match"} /\ atCall[t].empty}

\* C2 (concurrent registration): when N >= 2 threads have called set_callback
\* on the same empty registry and all N calls have ended, exactly one of them
\* returned normally, the other N-1 panicked, and the slot holds the pointer
\* passed by the call that returned normally.
ConcurrentRegistration ==
    (OnEmptyInFlight = {} /\ Cardinality(OnEmpty) >= 2) =>
        /\ Cardinality({i \in OnEmpty : setLog[i].outcome = "ok"}) = 1
        /\ Cardinality({i \in OnEmpty : setLog[i].outcome = "panic"})
               = Cardinality(OnEmpty) - 1
        /\ \A i \in OnEmpty : setLog[i].outcome = "ok" => callback_ptr = setLog[i].callback

\* Two racing calls with different pointers have both ended, and the one that
\* ended first is the one that panicked.
ConcurrentRegistrationWitness ==
    /\ OnEmptyInFlight = {}
    /\ Cardinality(OnEmpty) >= 2
    /\ \E i, j \in OnEmpty :
        /\ i < j
        /\ setLog[i].outcome = "panic" /\ setLog[j].outcome = "ok"
        /\ setLog[i].callback # setLog[j].callback
        /\ setLog[i].thread # setLog[j].thread

\* C3 (read before set): a get_callback whose load happens while no
\* set_callback has taken effect returns None, never a function pointer; this
\* covers the freshly constructed registry and every point before the first set.
ReadBeforeSet ==
    \A i \in GetCalls : getLog[i].effectiveAtLoad = 0 => getLog[i].result = None

\* A get_callback has returned None before any set took effect, and a
\* set_callback took effect afterwards.
ReadBeforeSetWitness ==
    /\ \E i \in GetCalls : getLog[i].effectiveAtLoad = 0 /\ getLog[i].result = None
    /\ effective = 1

\* C4 (write at most once): in every step the stored pointer either keeps its
\* value or goes from empty to an installed pointer; so it changes at most
\* once and never again afterwards.
WriteAtMostOnce ==
    [][callback_ptr' # callback_ptr =>
          (callback_ptr = EMPTY_PTR /\ callback_ptr' # EMPTY_PTR)]_vars

\* A pointer is installed, and a set_callback with another pointer and a
\* get_callback have run since.
WriteAtMostOnceWitness ==
    /\ callback_ptr # EMPTY_PTR
    /\ \E i \in SetCalls : setLog[i].outcome = "panic" /\ setLog[i].callback # callback_ptr
    /\ \E i \in GetCalls : getLog[i].effectiveAtLoad = 1

\* C5 (publication visibility): a get_callback that starts after
\* set_callback(f) has returned normally returns Some(f), on every thread and
\* however many other calls have happened since.
PublicationVisibility ==
    \A i \in GetCalls :
        \A f \in getLog[i].returnedAtCall : getLog[i].result = Some(f)

\* A get_callback on another thread started after set_callback(f) returned
\* and after a further set_callback(g) was attempted, and has returned.
PublicationVisibilityWitness ==
    \E i \in GetCalls, j, k \in SetCalls :
        /\ setLog[j].outcome = "ok"
        /\ setLog[k].outcome = "panic" /\ setLog[k].callback # setLog[j].callback
        /\ getLog[i].returnedAtCall = {setLog[j].callback}
        /\ getLog[i].thread # setLog[j].thread

(***************************************************************************)
(* Properties of the record converter                                      *)
(***************************************************************************)
\* The bytes of field i of the record, as its own converter writes them.
FieldBytes(i) == write_field(rec_fields[i], rec_obj[i], <<>>)

RECURSIVE BytesBefore(_)
\* The number of bytes that the fields declared before field i take.
BytesBefore(i) == IF i <= 1 THEN 0 ELSE BytesBefore(i - 1) + Len(FieldBytes(i - 1))

FieldCount == Len(rec_fields)

\* C6 (record encoding order): after write the buffer is what it was before,
\* followed by the encoding of every declared field, each at the place that
\* the declared order gives it, and by nothing else; and try_read reads the
\* fields in declared order, each from the place where the previous one ended.
RecordEncodingOrder ==
    /\ rec_pc \in {"written", "read"} =>
        /\ Len(rec_buf) = Len(rec_prefix) + BytesBefore(FieldCount + 1)
        /\ Take(rec_buf, Len(rec_prefix)) = rec_prefix
        /\ \A i \in 1..FieldCount :
              SubSeq(rec_buf, Len(rec_prefix) + BytesBefore(i) + 1,
                              Len(rec_prefix) + BytesBefore(i + 1)) = FieldBytes(i)
    /\ rec_pc = "read" =>
        /\ Len(rec_result.trace) = FieldCount
        /\ \A k \in 1..Len(rec_result.trace) :
              /\ rec_result.trace[k].field = k
              /\ Len(rec_wire) - rec_result.trace[k].left = BytesBefore(k)

\* A record of three fields of different types and sizes has been appended
\* to a buffer that was not empty, and has been read back.
RecordEncodingOrderWitness ==
    /\ rec_pc = "read"
    /\ rec_prefix # <<>>
    /\ FieldCount = 3
    /\ rec_fields[1] = "string" /\ rec_obj[1].s = <<0, 1>>
    /\ rec_fields[2] = "bool"
    /\ rec_fields[3] = "i16" /\ rec_obj[3].n = -1
    /\ Len(rec_result.trace) = 3

\* C7 (record round trip): try_read applied to the bytes that write(r)
\* produced returns Ok(r) and consumes exactly those bytes: what follows them
\* in the slice is left unread.
RecordRoundTrip ==
    rec_pc = "read" =>
        /\ rec_result.ok
        /\ rec_result.value = rec_obj
        /\ rec_wire = Drop(rec_buf, Len(rec_prefix)) \o rec_result.rest
        /\ Len(rec_wire) - Len(rec_result.rest) = Len(rec_buf) - Len(rec_prefix)

\* A record with a negative integer, a string and a boolean was read back
\* from a slice in which other bytes follow it.
RecordRoundTripWitness ==
    /\ rec_pc = "read"
    /\ FieldCount = 3
    /\ rec_obj[1] = I16V(-32768)
    /\ rec_obj[2] = StringV(<<97>>)
    /\ rec_obj[3] = BoolV(TRUE)
    /\ rec_result.ok
    /\ rec_result.rest = <<1, 0>>

(***************************************************************************)
(* Properties of the handle map and the dispatcher                         *)
(***************************************************************************)
StaleHandle == ProtocolError(StaleHandleMsg)

\* The drop count of every handle: an object is dropped at most once, and
\* exactly once when its handle has been released.
DroppedOnce ==
    \A h \in Handles :
        /\ hm_drops[h] <= 1
        /\ h \in hm_released => (hm_drops[h] = 1 /\ h \notin hm_live)
        /\ (h \in Issued /\ h \notin hm_released) => (hm_drops[h] = 0 /\ h \in hm_live)

\* C8 (handle lifecycle), as amended: a handle is Live from its insertion
\* until the trampoline is invoked on it with selector 0; every call that
\* begins after that release with a selector other than 0 is answered with
\* the stale-handle error, and the object is dropped exactly once (a repeated
\* selector 0 drops nothing more).
HandleLifecycle ==
    /\ (last.afterRelease /\ last.selector # IDX_CALLBACK_FREE) => last.buf = StaleHandle
    /\ DroppedOnce

\* C8 as stated: after the release, a call with any selector, selector 0
\* included, is answered with the stale-handle error.
HandleLifecycleAnySelector ==
    /\ last.afterRelease => last.buf = StaleHandle
    /\ DroppedOnce

\* A call of a method that began after the release of its handle has been
\* answered, the object having been dropped once.
HandleLifecycleWitness ==
    /\ last.afterRelease
    /\ last.selector \in Methods
    /\ last.buf = StaleHandle
    /\ hm_drops[last.handle] = 1

InsertCalls == 1..Len(insLog)

\* C9 (handle uniqueness): the handles returned by the inserts, concurrent
\* or not, are pairwise distinct and none of them is zero.
HandleUniqueness ==
    /\ \A i, j \in InsertCalls : i # j => insLog[i].handle # insLog[j].handle
    /\ \A i \in InsertCalls : insLog[i].handle # 0
    /\ \A t, u \in Callers :
          (t # u /\ hpc[t] = "ins_publish" /\ hpc[u] = "ins_publish")
              => hloc[t].handle # hloc[u].handle

\* Two inserts that ran at the same time have both returned.
HandleUniquenessWitness ==
    /\ Len(insLog) >= 2
    /\ \A i \in InsertCalls : insLog[i].overlapped

\* C10 (user-exception isolation): a call whose user method raised is
\* answered with a result buffer of status 1, and the handle stays Live: it
\* leaves the map only by a release, and a later call on it is answered with
\* the stale-handle error only if the handle was released.
UserExceptionIsolation ==
    /\ last.kind = "raised" => (Len(last.buf) >= 1 /\ last.buf[1] = 1)
    /\ \A h \in hm_raised : h \notin hm_released => h \in hm_live
    /\ (last.afterRaise /\ last.buf = StaleHandle) => last.handle \in hm_released

\* A method was called on a handle after a user method had raised on that
\* handle, and the call reached the object.
UserExceptionIsolationWitness ==
    /\ last.afterRaise
    /\ last.kind = "returned"
    /\ last.handle \notin hm_released

(***************************************************************************)
(* Properties of the registries of several interfaces                      *)
(***************************************************************************)
\* C11 (registry independence): the pointer stored in an interface's
\* registry is the one installed by the first set_callback on that registry
\* and by nothing else; a set_callback on a registry returns normally exactly
\* when no set_callback had taken effect on that same registry, and a
\* get_callback answers from that same registry, whatever has been set or
\* read on the registries of the other interfaces.
RegistryIndependence ==
    /\ \A a \in Interfaces : reg_ptr[a] = reg_first[a]
    /\ rlast.op = "set" => ((rlast.outcome = "ok") <=> (rlast.firstAtOp = 0))
    /\ rlast.op = "get" =>
          rlast.result = IF rlast.firstAtOp = 0 THEN None ELSE Some(rlast.firstAtOp)

\* A set_callback has returned normally on one interface's registry after
\* another interface's registry had been set, with a different pointer; and
\* the two registries hold their own pointers.
RegistryIndependenceWitness ==
    /\ rlast.op = "set" /\ rlast.outcome = "ok" /\ rlast.othersSet
    /\ \E a \in Interfaces : a # rlast.iface /\ reg_ptr[a] \notin {EMPTY_PTR, rlast.callback}
    /\ reg_ptr[rlast.iface] = rlast.callback

(***************************************************************************)
(* Decoding failures of the record converter                               *)
(***************************************************************************)
\* The slice as it was when the k-th read of a field began, and what the
\* field's own converter makes of it.
SliceAt(k) == Drop(rec_wire, Len(rec_wire) - rec_result.trace[k].left)
FieldReadAt(k) == try_read_field(rec_fields[rec_result.trace[k].field], SliceAt(k))

\* C12 (record decode failure): try_read reads the fields in declared order,
\* each where the previous one ended, up to the first field whose try_read
\* fails; it then returns that field's error and no record, and reads no
\* later field.  It returns a record only if every field was read.
RecordDecodeFailure ==
    rec_pc \in {"read", "misread"} =>
        LET n == Len(rec_result.trace) IN
        /\ n <= FieldCount
        /\ \A k \in 1..n : rec_result.trace[k].field = k
        /\ n > 0 => rec_result.trace[1].left = Len(rec_wire)
        /\ \A k \in 1..(n - 1) :
              /\ FieldReadAt(k).ok
              /\ Len(FieldReadAt(k).rest) = rec_result.trace[k + 1].left
        /\ IF n > 0 /\ ~FieldReadAt(n).ok
           THEN /\ ~rec_result.ok
                /\ rec_result.err = FieldReadAt(n).err
                /\ rec_result.value = <<>>
           ELSE /\ rec_result.ok
                /\ n = FieldCount
                /\ Len(rec_result.value) = FieldCount

\* The second of three fields, a boolean, failed to decode: try_read returned
\* its error, and the third field was not read.
RecordDecodeFailureWitness ==
    /\ rec_pc = "misread"
    /\ FieldCount = 3
    /\ rec_fields[2] = "bool"
    /\ Len(rec_result.trace) = 2
    /\ ~rec_result.ok
    /\ rec_result.err = "unexpected byte for Boolean"

(***************************************************************************)
(* Further properties of ForeignCallbackInternals                          *)
(***************************************************************************)
\* The pointer passed by the set_callback whose compare_exchange came first,
\* whether that call has ended or not.
FirstPointers ==
    {setLog[i].callback : i \in {j \in SetCalls : setLog[j].order = 1}}
    \cup {as_usize[t] : t \in {u \in Threads : pc[u] = "set_match" /\ atOp[u] = 1}}

\* C13 (a rejected set keeps the first pointer): once a set_callback has
\* panicked, the stored pointer is still the one installed first, and a
\* get_callback that begins after the panic returns that pointer, never the
\* one passed by the call that panicked.
RejectedSetKeepsFirst ==
    /\ Rejected # {} => callback_ptr \in FirstPointers
    /\ \A i \in GetCalls :
          getLog[i].rejectedAtCall # {} =>
              /\ getLog[i].result.some
              /\ getLog[i].result.ptr \in FirstPointers
              /\ \A g \in getLog[i].rejectedAtCall :
                    g \notin FirstPointers => getLog[i].result # Some(g)

\* set_callback(g) has panicked on a registry holding f, g being another
\* pointer, and a get_callback that began afterwards has returned Some(f).
RejectedSetKeepsFirstWitness ==
    \E i \in GetCalls :
        /\ getLog[i].rejectedAtCall # {}
        /\ getLog[i].result.some
        /\ getLog[i].result.ptr \notin getLog[i].rejectedAtCall
        /\ callback_ptr = getLog[i].result.ptr

\* The pointers passed by the set_callback calls that succeed: those that
\* have returned normally and those about to.
Succeeding ==
    ReturnedOk
    \cup {as_usize[t] : t \in {u \in Threads : pc[u] = "set_match"
                                              /\ old_ptr[u].ok /\ old_ptr[u].val = EMPTY_PTR}}

\* C14 (no torn or foreign reads): every get_callback returns None or
\* Some(p), p being exactly a pointer passed to a set_callback that succeeds;
\* never another value, and never the pointer of a call that panicked.
NoForeignReads ==
    \A i \in GetCalls :
        \/ getLog[i].result = None
        \/ /\ getLog[i].result.some
           /\ getLog[i].result.ptr \in Callbacks
           /\ getLog[i].result.ptr \in Succeeding

\* While set_callback calls were racing, one get_callback returned None and
\* another returned the pointer of the call that succeeded; a call with
\* another pointer panicked.
NoForeignReadsWitness ==
    /\ \E i, j \in GetCalls :
          /\ getLog[i].result = None
          /\ getLog[j].result.some
          /\ \E k \in SetCalls : /\ setLog[k].outcome = "panic"
                                 /\ setLog[k].onEmpty
                                 /\ setLog[k].callback # getLog[j].result.ptr

\* C15 (the empty sentinel is never installed): after a set_callback has
\* returned normally the slot differs from EMPTY_PTR; a get_callback returns
\* Some exactly when a set_callback had taken effect at its load; and no
\* second set_callback succeeds.
EmptySentinelNeverInstalled ==
    /\ ReturnedOk # {} => callback_ptr # EMPTY_PTR
    /\ effective >= 1 => callback_ptr # EMPTY_PTR
    /\ \A i \in GetCalls : getLog[i].result.some <=> getLog[i].effectiveAtLoad >= 1
    /\ effective <= 1
    /\ Cardinality({i \in SetCalls : setLog[i].outcome = "ok"}) <= 1

\* The callback with the lowest address was installed; a later set_callback
\* panicked and a get_callback returned Some.
EmptySentinelNeverInstalledWitness ==
    /\ \E i \in SetCalls : setLog[i].outcome = "ok" /\ setLog[i].callback = 1
    /\ \E i \in SetCalls : setLog[i].outcome = "panic" /\ ~setLog[i].onEmpty
    /\ \E i \in GetCalls : getLog[i].result.some /\ getLog[i].effectiveAtLoad = 1

(***************************************************************************)
(* Properties of render_literal                                            *)
(***************************************************************************)
\* C16 (integer literal value preservation): for every Int and UInt literal,
\* in each radix, the text that render_literal produces denotes in Python the
\* integer that the literal carries, negative integers included.
LiteralValuePreserved ==
    lit_pc = "evaluated" => lit_py = IntegerOf(lit.i, lit.radix)

====
